---------------------------- MODULE Spec2Model ----------------------------
(***************************************************************************)
(* Cudd_bddTransfer and Cudd_bddPermute (src/dd/_cudd_addendum.c) as a     *)
(* state machine.                                                          *)
(*                                                                         *)
(* A decision-diagram manager keeps one node per Boolean function up to    *)
(* negation (complement edges), so a node is identified here by the        *)
(* function it denotes: the set of the variable assignments at which the   *)
(* regular (uncomplemented) pointer to it evaluates to 1.  The regular     *)
(* pointer always evaluates to 1 at the all-ones assignment.  The children *)
(* of a node are its cofactors on the first variable, in the manager's     *)
(* order, it depends on.  An edge (a DdNode pointer) is a node with a      *)
(* complement bit.  The reference count of a node is the number of         *)
(* references held from outside the diagram (cuddRef, the manager's own    *)
(* references on its constants and projection functions) plus the number   *)
(* of arcs that reach it from the nodes that are not dead.                 *)
(***************************************************************************)
EXTENDS Integers, Sequences, FiniteSets, TLC

VARIABLES
    op,         \* which exported function runs: "transfer" or "permute"
    f,          \* the operand edge (Cudd_bddTransfer's f, Cudd_bddPermute's node)
    permut,     \* Cudd_bddPermute's array permut
    dd,         \* the two managers, ddS and ddD (Cudd_bddPermute's manager is ddD)
    pc,         \* position in the exported function
    stack,      \* the pending frames of the recursive step, innermost last
    ret,        \* the value returned by the last call that returned
    table,      \* the per-attempt cache (st_table or DdHashTable)
    res,        \* res of the exported function (and of cuddBddTransfer)
    result,     \* the value the exported function returned
    tohCalls,   \* the invocations of the timeout handler, in order
    attempts,   \* iterations of the do-while loop started so far
    reorders,   \* reordering passes that fired during the call
    failed,     \* what failed in the current attempt, "none" if nothing
    dd0,        \* the two managers as they were when the call began
    genFailed,  \* whether st_init_gen failed in some attempt of the call
    mark,       \* the external references in ddD when the current attempt began
    log         \* what the recursion did with the cache in the current attempt

vars == <<op, f, permut, dd, pc, stack, ret, table, res, result, tohCalls,
          attempts, reorders, failed, dd0, genFailed, mark, log>>

-----------------------------------------------------------------------------
(* Bounds of the model. *)

\* Number of variables of each manager (DdManager.size).
NumVars == 3

\* Reordering passes that may fire during one call.
MaxReorder == 1

\* The iterations of the do-while loop are counted up to this number, which
\* no call reaches.
MaxAttempts == MaxReorder + 2

-----------------------------------------------------------------------------
(* Edges, nodes and Boolean functions. *)

Vars == 0 .. (NumVars - 1)

\* A variable assignment is the set of the variables it sets to 1.
Assign == SUBSET Vars

\* The node of the constant: the regular pointer DD_ONE is the function true.
ONE_NODE == Assign

NULL == [node |-> {}, comp |-> FALSE]

Edge(n, c) == [node |-> n, comp |-> c]

DD_ONE == Edge(ONE_NODE, FALSE)

Cudd_Not(e) == Edge(e.node, ~e.comp)

Cudd_NotCond(e, c) == IF c THEN Cudd_Not(e) ELSE e

Cudd_Regular(e) == Edge(e.node, FALSE)

Cudd_IsComplement(e) == e.comp

cuddIsConstant(n) == n = ONE_NODE

\* The function an edge denotes.
EdgeFn(e) == IF e.comp THEN Assign \ e.node ELSE e.node

\* The edge of a function: the node is the one of the function or of its
\* negation, whichever is 1 at the all-ones assignment.
MkEdge(fn) == IF Vars \in fn THEN Edge(fn, FALSE) ELSE Edge(Assign \ fn, TRUE)

\* Value of an edge at an assignment.
Eval(e, a) == a \in EdgeFn(e)

Cofactor(fn, v, b) ==
    {a \in Assign : (IF b THEN a \cup {v} ELSE a \ {v}) \in fn}

\* Whether the two cofactors of fn on variable v differ.
DependsOn(fn, v) ==
    \E a \in fn : (IF v \in a THEN a \ {v} ELSE a \cup {v}) \notin fn

\* The variable orders: invperm, the variable index at each level.
Orders ==
    {p \in [1 .. NumVars -> Vars] : \A i, j \in 1 .. NumVars : p[i] = p[j] => i = j}

\* Level of the first variable, in order invperm, a non-constant node depends on.
RECURSIVE FirstLevel(_, _, _)
FirstLevel(n, invperm, l) ==
    IF DependsOn(n, invperm[l]) THEN l ELSE FirstLevel(n, invperm, l + 1)

TopLevel(n, invperm) == FirstLevel(n, invperm, 1)

\* N->index of a non-constant node.
NodeIndex(n, invperm) == invperm[TopLevel(n, invperm)]

\* cuddT(N) and cuddE(N): the then child is always regular.
cuddT(n, invperm) == MkEdge(Cofactor(n, NodeIndex(n, invperm), TRUE))

cuddE(n, invperm) == MkEdge(Cofactor(n, NodeIndex(n, invperm), FALSE))

\* The projection function of variable i (manager->vars[i]).
VarEdge(i) == Edge({a \in Assign : i \in a}, FALSE)

\* The function if g then t else e.
IteFn(g, t, e) ==
    {a \in Assign : IF a \in EdgeFn(g) THEN a \in EdgeFn(t) ELSE a \in EdgeFn(e)}


-----------------------------------------------------------------------------
(* The manager: variable order, reference counts, flags. *)

CUDD_NO_ERROR == "CUDD_NO_ERROR"

CUDD_MEMORY_OUT == "CUDD_MEMORY_OUT"

CUDD_TIMEOUT_EXPIRED == "CUDD_TIMEOUT_EXPIRED"

\* References held on node n from outside the diagram.
ExtOf(m, n) == IF n \in DOMAIN m.ext THEN m.ext[n] ELSE 0

\* The external count of node n changed by d (cuddSatInc, cuddSatDec below
\* the saturation value).
AddExt(ext, n, d) ==
    LET old == IF n \in DOMAIN ext THEN ext[n] ELSE 0
        D == IF old + d = 0 THEN DOMAIN ext \ {n} ELSE DOMAIN ext \cup {n}
    IN  [k \in D |-> IF k = n THEN old + d ELSE ext[k]]

\* The children of a node, as nodes.
ChildNodes(n, invperm) ==
    IF cuddIsConstant(n) THEN {}
    ELSE LET index == NodeIndex(n, invperm)
         IN  {MkEdge(Cofactor(n, index, TRUE)).node,
              MkEdge(Cofactor(n, index, FALSE)).node}

\* The nodes of S (whose descendants are known to be in S or in new) and
\* of new, with all their descendants.
RECURSIVE Closure(_, _, _)
Closure(S, new, invperm) ==
    IF new = {} THEN S
    ELSE LET all == S \cup new
         IN  Closure(all, UNION {ChildNodes(n, invperm) : n \in new} \ all, invperm)

\* The nodes that are not dead: those referenced from outside, those just
\* returned by the manager with a reference count of 0 and not yet
\* referenced (fresh), and all their descendants.
Alive(m) ==
    Closure({}, {n \in DOMAIN m.ext : m.ext[n] > 0} \cup m.fresh, m.invperm)

\* N->ref: the external references plus the arcs from nodes that are not dead.
Ref(m, n) ==
    LET live == {p \in Alive(m) : ~cuddIsConstant(p)}
        arcs == {<<p, b>> \in live \X BOOLEAN :
                    MkEdge(Cofactor(p, NodeIndex(p, m.invperm), b)).node = n}
    IN  ExtOf(m, n) + Cardinality(arcs)

\* cuddRef(n): one more reference on the node of edge e.
cuddRef(m, e) ==
    [m EXCEPT !.ext = AddExt(@, e.node, 1), !.fresh = @ \ {e.node}]

\* cuddDeref(n): one reference fewer; the node keeps its children even when
\* its count reaches 0.
cuddDeref(m, e) ==
    LET m1 == [m EXCEPT !.ext = AddExt(@, e.node, -1)]
    IN  IF Ref(m1, e.node) = 0 THEN [m1 EXCEPT !.fresh = @ \cup {e.node}] ELSE m1

\* Cudd_RecursiveDeref(dd, n): one reference fewer; a node whose count
\* reaches 0 is dead and gives up the arcs to its children.
Cudd_RecursiveDeref(m, e) ==
    [m EXCEPT !.ext = AddExt(@, e.node, -1), !.fresh = @ \ {e.node}]

\* Cudd_IterDerefBdd(dd, n): as Cudd_RecursiveDeref, without recursion.
Cudd_IterDerefBdd(m, e) == Cudd_RecursiveDeref(m, e)

\* The manager hands out edge e as the result of a construction: a node
\* that was dead or absent now exists with a reference count of 0.
Produce(m, e) ==
    IF Ref(m, e.node) = 0 THEN [m EXCEPT !.fresh = @ \cup {e.node}] ELSE m

\* The ways a construction step of the manager (cuddUniqueInter,
\* cuddBddIteRecur) can end: with a result, or with NULL after an allocation
\* failure, after the time limit expired, or after a reordering pass fired.
Outcomes(n) ==
    {"ok", "oom", "timeout"} \cup (IF n < MaxReorder THEN {"reorder"} ELSE {})

\* The manager after a construction step that ended with NULL.
Fail(m, how, invperm) ==
    CASE how = "oom" -> [m EXCEPT !.errorCode = CUDD_MEMORY_OUT]
      [] how = "timeout" -> [m EXCEPT !.errorCode = CUDD_TIMEOUT_EXPIRED]
      [] how = "reorder" -> [m EXCEPT !.reordered = 1, !.invperm = invperm]

\* The order with the variables of levels l and l + 1 exchanged.
SwapLevels(invperm, l) ==
    [k \in 1 .. NumVars |->
        IF k = l THEN invperm[l + 1] ELSE IF k = l + 1 THEN invperm[l] ELSE invperm[k]]

\* The orders a step may leave: a reordering pass exchanges two adjacent
\* levels, any other outcome keeps the order.
NewOrders(m, how) ==
    IF how = "reorder"
    THEN {SwapLevels(m.invperm, l) : l \in 1 .. (NumVars - 1)}
    ELSE {m.invperm}

-----------------------------------------------------------------------------
(* The recursion stack and the cache. *)

Frame(e) ==
    [f |-> e, comple |-> FALSE, pc |-> "entry",
     t |-> NULL, e |-> NULL, var |-> NULL, res |-> NULL]

Top == stack[Len(stack)]

Pop == SubSeq(stack, 1, Len(stack) - 1)

\* The top frame replaced by fr.
SetTop(fr) == [stack EXCEPT ![Len(stack)] = fr]

\* The top frame replaced by fr, and a call of the recursive step on edge e.
Call(fr, e) == Append(SetTop(fr), Frame(e))

NoTable == [alloc |-> FALSE, map |-> <<>>]

EmptyTable == [alloc |-> TRUE, map |-> <<>>]

\* The map with key k bound to v.
Bind(map, k, v) ==
    [n \in DOMAIN map \cup {k} |-> IF n = k THEN v ELSE map[n]]

\* The map without key k.
Unbind(map, k) == [n \in DOMAIN map \ {k} |-> map[n]]

\* An entry of the log: a lookup that found nothing ("miss") or found a
\* value ("hit"), the start of the recursive step on a node's children
\* ("expand"), an insertion ("insert") and the return of a composed result
\* ("built"); key is the pointer the cache was given or would be given, res
\* the result for that pointer, count the count stored with the entry and
\* ref the reference count the step read in the node.
Event(kind, key, r, count, ref) ==
    [kind |-> kind, key |-> key, res |-> r, count |-> count, ref |-> ref]

-----------------------------------------------------------------------------
(* Cudd_bddTransfer, cuddBddTransfer, cuddBddTransferRecur. *)

\* The transfer runs in its plain form (Cudd_bddTransfer) or in its renaming
\* form, which is the same algorithm but for the destination variable.
Transferring == op \in {"transfer", "rename"}

\* A renaming transfer that forgets the map.
Rename_Index_Same(map, index) == index

\* The renaming form: the destination variable is map[sourceIndex].
Rename_Index(map, index) == map[index]

\* Line 178: the index of the destination's variable, f's own (plain) or
\* its image under the map (renaming).
Transfer_Index(index) == IF op = "rename" THEN Rename_Index(permut, index) ELSE index

\* A faulty line 170: f keeps its polarity.
Transfer_Canonical_Kept(e, comple) == e

\* Line 170: f = Cudd_NotCond(f, comple), a regular pointer.
Transfer_Canonical(e, comple) == Cudd_NotCond(e, comple)

\* A faulty line 174: the lookup finds nothing.
Transfer_Found_Never(map, key) == FALSE

\* Line 174: st_lookup finds the value stored under the key.
Transfer_Found(map, key) == key \in DOMAIN map

\* A faulty lines 174-175: the value found is returned with the opposite of
\* f's complement bit.
Transfer_CacheHit_Negated(value, comple) == Cudd_NotCond(value, ~comple)

\* A faulty lines 174-175: the value found is returned without f's
\* complement bit.
Transfer_CacheHit_Plain(value, comple) == value

\* Lines 174-175: the value found in the table, with f's complement bit.
Transfer_CacheHit(value, comple) == Cudd_NotCond(value, comple)

\* A faulty lines 182 and 188: a NULL from a recursive call goes unnoticed.
Transfer_IsNull_Never(x) == FALSE

\* Lines 182 and 188: the test of a recursive call's result.
Transfer_IsNull(x) == x = NULL

\* A faulty release: e is forgotten.
Transfer_ReleaseTE_OnlyT(m, t, e) == Cudd_RecursiveDeref(m, t)

\* Lines 197-198, 203-204 and 208-209: t and e are released.
Transfer_ReleaseTE(m, t, e) == Cudd_RecursiveDeref(Cudd_RecursiveDeref(m, t), e)

\* A faulty line 207: res is not referenced.
Transfer_KeepRes_Not(m, r) == m

\* Line 207: cuddRef(res), the reference the table entry will own.
Transfer_KeepRes(m, r) == cuddRef(m, r)

\* A faulty line 132: the reference on the result is kept.
Transfer_DropRes_Kept(m, r) == m

\* Line 132: the reference taken on the result at line 119 is dropped.
Transfer_DropRes(m, r) == IF r # NULL THEN cuddDeref(m, r) ELSE m

\* A faulty line 82: the loop never goes round again.
Transfer_Again_Never(m) == FALSE

\* Line 82: the loop condition.
Transfer_Again(m) == m.reordered = 1

\* A faulty lines 83-84: the handler is called without being tested.
Transfer_TimeoutDue_Untested(m) == m.errorCode = CUDD_TIMEOUT_EXPIRED

\* Lines 83-84: whether the timeout handler is called.
Transfer_TimeoutDue(m) == m.errorCode = CUDD_TIMEOUT_EXPIRED /\ m.timeoutHandler

\* A faulty line 80: the flag of the source is reset too.
Transfer_ResetFlag_Both(d) == [d EXCEPT !.ddD.reordered = 0, !.ddS.reordered = 0]

\* Line 80: ddD->reordered = 0.
Transfer_ResetFlag(d) == [d EXCEPT !.ddD.reordered = 0]

\* Lines 79-81 and 116-118: the loop body resets the destination's flag and
\* calls cuddBddTransfer, which creates the table (or fails to) and calls the
\* recursive step on f.
Cudd_bddTransfer_Do ==
    /\ Transferring
    /\ pc = "do"
    /\ attempts' = IF attempts < MaxAttempts THEN attempts + 1 ELSE attempts
    /\ \E created \in BOOLEAN :
         IF created
         THEN /\ table' = EmptyTable
              /\ stack' = <<Frame(f)>>
              /\ pc' = "recur"
              /\ failed' = "none"
              /\ res' = res
         ELSE /\ table' = NoTable
              /\ stack' = <<>>
              /\ pc' = "while"
              /\ failed' = "table"
              /\ res' = NULL
    /\ dd' = Transfer_ResetFlag(dd)
    /\ ret' = NULL
    /\ mark' = dd.ddD.ext
    /\ log' = <<>>
    /\ UNCHANGED <<op, f, permut, result, tohCalls, reorders, dd0, genFailed>>

\* Lines 162-181: the constant, the cache hit, or the call on the then child.
cuddBddTransferRecur_Entry ==
    /\ Transferring
    /\ pc = "recur"
    /\ stack # <<>>
    /\ Top.pc = "entry"
    /\ LET one == DD_ONE
           comple == Cudd_IsComplement(Top.f)
           F == Transfer_Canonical(Top.f, comple)
       IN  IF cuddIsConstant(Top.f.node)
           THEN /\ stack' = Pop
                /\ ret' = Cudd_NotCond(one, comple)
                /\ log' = log
           ELSE IF Transfer_Found(table.map, F.node)
           THEN /\ stack' = Pop
                /\ ret' = Transfer_CacheHit(table.map[F.node], comple)
                /\ log' = Append(log, Event("hit", F, Cudd_NotCond(ret', comple), 0, 0))
           ELSE /\ stack' = Call([Top EXCEPT !.f = F, !.comple = comple, !.pc = "then"],
                                 cuddT(F.node, dd.ddS.invperm))
                /\ ret' = ret
                /\ log' = log \o <<Event("miss", F, NULL, 0, 0),
                                    Event("expand", F, NULL, 0, 0)>>
    /\ UNCHANGED <<op, f, permut, dd, pc, table, res, result, tohCalls,
                   attempts, reorders, failed, dd0, genFailed, mark>>

\* Lines 182-187: t is back; NULL is passed on, else t is referenced and the
\* step is called on the else child.
cuddBddTransferRecur_Then ==
    /\ Transferring
    /\ pc = "recur"
    /\ stack # <<>>
    /\ Top.pc = "then"
    /\ IF Transfer_IsNull(ret)
       THEN /\ stack' = Pop
            /\ ret' = NULL
            /\ dd' = dd
       ELSE /\ stack' = Call([Top EXCEPT !.t = ret, !.pc = "else"],
                             cuddE(Top.f.node, dd.ddS.invperm))
            /\ ret' = ret
            /\ dd' = [dd EXCEPT !.ddD = cuddRef(@, ret)]
    /\ UNCHANGED <<op, f, permut, pc, table, res, result, tohCalls,
                   attempts, reorders, failed, dd0, genFailed, mark, log>>

\* Lines 188-192: e is back; NULL releases t and is passed on, else e is
\* referenced.
cuddBddTransferRecur_Else ==
    /\ Transferring
    /\ pc = "recur"
    /\ stack # <<>>
    /\ Top.pc = "else"
    /\ IF Transfer_IsNull(ret)
       THEN /\ stack' = Pop
            /\ ret' = NULL
            /\ dd' = [dd EXCEPT !.ddD = Cudd_RecursiveDeref(@, Top.t)]
       ELSE /\ stack' = SetTop([Top EXCEPT !.e = ret, !.pc = "var"])
            /\ ret' = ret
            /\ dd' = [dd EXCEPT !.ddD = cuddRef(@, ret)]
    /\ UNCHANGED <<op, f, permut, pc, table, res, result, tohCalls,
                   attempts, reorders, failed, dd0, genFailed, mark, log>>

\* Lines 178 and 194-200: the projection function of f's index in the
\* destination; on NULL t and e are released.
cuddBddTransferRecur_Var ==
    /\ Transferring
    /\ pc = "recur"
    /\ stack # <<>>
    /\ Top.pc = "var"
    /\ \E how \in Outcomes(reorders) : \E ord \in NewOrders(dd.ddD, how) :
         LET index == Transfer_Index(NodeIndex(Top.f.node, dd.ddS.invperm))
         IN  IF how = "ok"
             THEN /\ stack' = SetTop([Top EXCEPT !.var = VarEdge(index), !.pc = "ite"])
                  /\ ret' = ret
                  /\ dd' = dd
                  /\ failed' = failed
                  /\ reorders' = reorders
             ELSE /\ stack' = Pop
                  /\ ret' = NULL
                  /\ dd' = [dd EXCEPT !.ddD =
                              Transfer_ReleaseTE(Fail(@, how, ord), Top.t, Top.e)]
                  /\ failed' = how
                  /\ reorders' = IF how = "reorder" THEN reorders + 1 ELSE reorders
    /\ UNCHANGED <<op, f, permut, pc, table, res, result, tohCalls,
                   attempts, dd0, genFailed, mark, log>>

\* Lines 201-209: res = ite(var, t, e) in the destination; on NULL t and e
\* are released, else res is referenced and then t and e are released.
cuddBddTransferRecur_Ite ==
    /\ Transferring
    /\ pc = "recur"
    /\ stack # <<>>
    /\ Top.pc = "ite"
    /\ \E how \in Outcomes(reorders) : \E ord \in NewOrders(dd.ddD, how) :
         IF how = "ok"
         THEN LET r == MkEdge(IteFn(Top.var, Top.t, Top.e))
              IN  /\ stack' = SetTop([Top EXCEPT !.res = r, !.pc = "add"])
                  /\ ret' = ret
                  /\ dd' = [dd EXCEPT !.ddD =
                              Transfer_ReleaseTE(Transfer_KeepRes(Produce(@, r), r),
                                                 Top.t, Top.e)]
                  /\ failed' = failed
                  /\ reorders' = reorders
         ELSE /\ stack' = Pop
              /\ ret' = NULL
              /\ dd' = [dd EXCEPT !.ddD =
                          Transfer_ReleaseTE(Fail(@, how, ord), Top.t, Top.e)]
              /\ failed' = how
              /\ reorders' = IF how = "reorder" THEN reorders + 1 ELSE reorders
    /\ UNCHANGED <<op, f, permut, pc, table, res, result, tohCalls,
                   attempts, dd0, genFailed, mark, log>>

\* Lines 211-215: the result enters the table under the regular f, which
\* keeps the reference taken on res; if the insertion fails res is released.
cuddBddTransferRecur_Add ==
    /\ Transferring
    /\ pc = "recur"
    /\ stack # <<>>
    /\ Top.pc = "add"
    /\ \E added \in BOOLEAN :
         IF added
         THEN /\ table' = [table EXCEPT !.map = Bind(@, Top.f.node, Top.res)]
              /\ ret' = Cudd_NotCond(Top.res, Top.comple)
              /\ dd' = dd
              /\ failed' = failed
              /\ log' = log \o
                    <<Event("insert", Top.f, Top.res, 0, 0),
                      Event("built", Top.f, Cudd_NotCond(ret', Top.comple), 0, 0)>>
         ELSE /\ table' = table
              /\ ret' = NULL
              /\ dd' = [dd EXCEPT !.ddD = Cudd_RecursiveDeref(@, Top.res)]
              /\ failed' = "add"
              /\ log' = log
    /\ stack' = Pop
    /\ UNCHANGED <<op, f, permut, pc, res, result, tohCalls,
                   attempts, reorders, dd0, genFailed, mark>>

\* The loop of lines 126-128: every value of the table is dereferenced.
RECURSIVE DerefValues(_, _)
DerefValues(m, map) ==
    IF DOMAIN map = {} THEN m
    ELSE LET key == CHOOSE k \in DOMAIN map : TRUE
         IN  DerefValues(Cudd_RecursiveDeref(m, map[key]), Unbind(map, key))

\* Lines 119-138: the recursion is back in cuddBddTransfer.  The result is
\* referenced, the table's values are dereferenced and the table is freed,
\* and the result's reference is dropped; if the table's generator cannot be
\* created, the table is freed and NULL returned.
cuddBddTransfer_Out ==
    /\ Transferring
    /\ pc = "recur"
    /\ stack = <<>>
    /\ LET m1 == IF ret # NULL THEN cuddRef(dd.ddD, ret) ELSE dd.ddD
       IN  \E gen \in BOOLEAN :
             IF gen
             THEN LET m2 == DerefValues(m1, table.map)
                  IN  /\ dd' = [dd EXCEPT !.ddD = Transfer_DropRes(m2, ret)]
                      /\ res' = ret
                      /\ failed' = failed
                      /\ genFailed' = genFailed
             ELSE /\ dd' = [dd EXCEPT !.ddD = m1]
                  /\ res' = NULL
                  /\ failed' = "gen"
                  /\ genFailed' = TRUE
    /\ table' = NoTable
    /\ pc' = "while"
    /\ log' = <<>>
    /\ UNCHANGED <<op, f, permut, stack, ret, result, tohCalls,
                   attempts, reorders, dd0, mark>>

\* Line 82: the loop repeats while the destination's flag is 1.
Cudd_bddTransfer_While ==
    /\ Transferring
    /\ pc = "while"
    /\ pc' = IF Transfer_Again(dd.ddD) THEN "do" ELSE "timeout"
    /\ UNCHANGED <<op, f, permut, dd, stack, ret, table, res, result, tohCalls,
                   attempts, reorders, failed, dd0, genFailed, mark, log>>

\* Lines 83-87: the timeout handler, if the destination reports a timeout
\* and a handler is registered; then res is returned.
Cudd_bddTransfer_Return ==
    /\ Transferring
    /\ pc = "timeout"
    /\ tohCalls' =
         IF Transfer_TimeoutDue(dd.ddD)
         THEN Append(tohCalls, [manager |-> "ddD", arg |-> dd.ddD.tohArg])
         ELSE tohCalls
    /\ result' = res
    /\ pc' = "done"
    /\ UNCHANGED <<op, f, permut, dd, stack, ret, table, res,
                   attempts, reorders, failed, dd0, genFailed, mark, log>>

-----------------------------------------------------------------------------
(* Cudd_bddPermute, cuddBddPermuteRecur. *)

manager == dd.ddD

\* A faulty line 322: N's own index is used.
Permute_Index_Same(array, index) == index

\* A faulty line 322: the array is read one place too far.
Permute_Index_Next(array, index) == array[(index + 1) % NumVars]

\* A faulty line 322: the array is applied twice.
Permute_Index_Twice(array, index) == array[array[index]]

\* Line 322: the index of the variable that takes the place of N's.
Permute_Index(array, index) == array[index]

\* Lines 325-326 and 330-331: T and E are released.
Permute_ReleaseTE(m, t, e) == Cudd_IterDerefBdd(Cudd_IterDerefBdd(m, t), e)

\* A faulty line 254: the reference on the result is kept.
Permute_DropRes_Kept(m, r) == m

\* Line 254: the reference taken on the result at line 248 is dropped.
Permute_DropRes(m, r) == IF r # NULL THEN cuddDeref(m, r) ELSE m

\* A faulty line 252: the loop always goes round again.
Permute_Again_Always(m) == TRUE

\* Line 252: the loop condition.
Permute_Again(m) == m.reordered = 1

\* A faulty line 255: the handler is called whatever the error code.
Permute_TimeoutDue_AnyError(m) == m.timeoutHandler

\* Line 255: whether the timeout handler is called.
Permute_TimeoutDue(m) == m.errorCode = CUDD_TIMEOUT_EXPIRED /\ m.timeoutHandler

\* Lines 243-247: the loop body resets the flag and creates the hash table;
\* without a table the function returns NULL at once, else it calls the
\* recursive step on node.  cuddHashTableInit reports its failure in the
\* manager's error code.
Cudd_bddPermute_Do ==
    /\ op = "permute"
    /\ pc = "do"
    /\ attempts' = IF attempts < MaxAttempts THEN attempts + 1 ELSE attempts
    /\ \E created \in BOOLEAN :
         IF created
         THEN /\ table' = EmptyTable
              /\ stack' = <<Frame(f)>>
              /\ pc' = "recur"
              /\ failed' = "none"
              /\ dd' = [dd EXCEPT !.ddD.reordered = 0]
         ELSE /\ table' = NoTable
              /\ stack' = <<>>
              /\ pc' = "done"
              /\ failed' = "table"
              /\ dd' = [dd EXCEPT !.ddD.reordered = 0,
                                  !.ddD.errorCode = CUDD_MEMORY_OUT]
    /\ ret' = NULL
    /\ result' = NULL
    /\ mark' = dd.ddD.ext
    /\ log' = <<>>
    /\ UNCHANGED <<op, f, permut, res, tohCalls, reorders, dd0, genFailed>>

\* A faulty line 338: the count is not decremented.
Permute_Fanout_Full(ref) == ref

\* Lines 337-338: fanout = N->ref, decremented.
Permute_Fanout(ref) == ref - 1

\* Lines 300 and 336: the test N->ref != 1, on the count as it is when read.
Permute_Cacheable(ref) == ref # 1

\* cuddHashTableLookup1 on a key the table holds: the entry's count goes
\* down by one, and an entry whose count reaches 0 leaves the table, its
\* value dereferenced without recursion.
LookupManager(m, map, key) ==
    IF map[key].count - 1 = 0 THEN cuddDeref(m, map[key].value) ELSE m

LookupMap(map, key) ==
    IF map[key].count - 1 = 0 THEN Unbind(map, key)
    ELSE [map EXCEPT ![key].count = @ - 1]

\* Lines 291-308: the constant, the cache hit (looked up only when the node
\* has a reference count other than 1), or the call on the then child.
cuddBddPermuteRecur_Entry ==
    /\ op = "permute"
    /\ pc = "recur"
    /\ stack # <<>>
    /\ Top.pc = "entry"
    /\ LET node == Top.f
           N == Cudd_Regular(node)
           ref == Ref(manager, N.node)
       IN  IF cuddIsConstant(N.node)
           THEN /\ stack' = Pop
                /\ ret' = node
                /\ log' = log
                /\ UNCHANGED <<dd, table>>
           ELSE IF Permute_Cacheable(ref) /\ N.node \in DOMAIN table.map
           THEN /\ stack' = Pop
                /\ ret' = Cudd_NotCond(table.map[N.node].value, N # node)
                /\ dd' = [dd EXCEPT !.ddD = LookupManager(@, table.map, N.node)]
                /\ table' = [table EXCEPT !.map = LookupMap(@, N.node)]
                /\ log' = Append(log, Event("hit", N, Cudd_NotCond(ret', N # node),
                                            table.map[N.node].count, ref))
           ELSE /\ stack' = Call([Top EXCEPT !.f = N, !.comple = (N # node),
                                             !.pc = "then"],
                                 cuddT(N.node, manager.invperm))
                /\ ret' = ret
                /\ log' = log \o
                      (IF Permute_Cacheable(ref)
                       THEN <<Event("miss", N, NULL, 0, ref)>> ELSE <<>>)
                      \o <<Event("expand", N, NULL, 0, ref)>>
                /\ UNCHANGED <<dd, table>>
    /\ UNCHANGED <<op, f, permut, pc, res, result, tohCalls,
                   attempts, reorders, failed, dd0, genFailed, mark>>

\* Lines 309-311: T is back; NULL is passed on, else T is referenced and the
\* step is called on the else child.
cuddBddPermuteRecur_Then ==
    /\ op = "permute"
    /\ pc = "recur"
    /\ stack # <<>>
    /\ Top.pc = "then"
    /\ IF ret = NULL
       THEN /\ stack' = Pop
            /\ ret' = NULL
            /\ dd' = dd
       ELSE /\ stack' = Call([Top EXCEPT !.t = ret, !.pc = "else"],
                             cuddE(Top.f.node, manager.invperm))
            /\ ret' = ret
            /\ dd' = [dd EXCEPT !.ddD = cuddRef(@, ret)]
    /\ UNCHANGED <<op, f, permut, pc, table, res, result, tohCalls,
                   attempts, reorders, failed, dd0, genFailed, mark, log>>

\* Lines 312-316: E is back; NULL releases T and is passed on, else E is
\* referenced.
cuddBddPermuteRecur_Else ==
    /\ op = "permute"
    /\ pc = "recur"
    /\ stack # <<>>
    /\ Top.pc = "else"
    /\ IF ret = NULL
       THEN /\ stack' = Pop
            /\ ret' = NULL
            /\ dd' = [dd EXCEPT !.ddD = Cudd_IterDerefBdd(@, Top.t)]
       ELSE /\ stack' = SetTop([Top EXCEPT !.e = ret, !.pc = "ite"])
            /\ ret' = ret
            /\ dd' = [dd EXCEPT !.ddD = cuddRef(@, ret)]
    /\ UNCHANGED <<op, f, permut, pc, table, res, result, tohCalls,
                   attempts, reorders, failed, dd0, genFailed, mark, log>>

\* Lines 322-331: res = ite(vars[permut[N->index]], T, E); on NULL T and E
\* are released, else res is referenced and then T and E are released.
cuddBddPermuteRecur_Ite ==
    /\ op = "permute"
    /\ pc = "recur"
    /\ stack # <<>>
    /\ Top.pc = "ite"
    /\ \E how \in Outcomes(reorders) : \E ord \in NewOrders(manager, how) :
         IF how = "ok"
         THEN LET index == Permute_Index(permut, NodeIndex(Top.f.node, manager.invperm))
                  r == MkEdge(IteFn(VarEdge(index), Top.t, Top.e))
              IN  /\ stack' = SetTop([Top EXCEPT !.var = VarEdge(index),
                                                 !.res = r, !.pc = "insert"])
                  /\ ret' = ret
                  /\ dd' = [dd EXCEPT !.ddD =
                              Permute_ReleaseTE(cuddRef(Produce(@, r), r), Top.t, Top.e)]
                  /\ failed' = failed
                  /\ reorders' = reorders
         ELSE /\ stack' = Pop
              /\ ret' = NULL
              /\ dd' = [dd EXCEPT !.ddD =
                          Permute_ReleaseTE(Fail(@, how, ord), Top.t, Top.e)]
              /\ failed' = how
              /\ reorders' = IF how = "reorder" THEN reorders + 1 ELSE reorders
    /\ UNCHANGED <<op, f, permut, pc, table, res, result, tohCalls,
                   attempts, dd0, genFailed, mark, log>>

\* Lines 336-345: a node whose reference count is not 1 enters the table
\* with its count less one (cuddHashTableInsert1 references the value); if
\* the insertion fails res is released and NULL returned.  Then the frame's
\* reference on res is dropped and res returned.
cuddBddPermuteRecur_Insert ==
    /\ op = "permute"
    /\ pc = "recur"
    /\ stack # <<>>
    /\ Top.pc = "insert"
    /\ LET N == Top.f.node
           ref == Ref(manager, N)
       IN  IF Permute_Cacheable(ref)
           THEN \E inserted \in BOOLEAN :
                  IF inserted
                  THEN LET fanout == Permute_Fanout(ref)
                       IN  /\ table' = [table EXCEPT !.map =
                                          Bind(@, N, [value |-> Top.res, count |-> fanout])]
                           /\ dd' = [dd EXCEPT !.ddD =
                                       cuddDeref(cuddRef(@, Top.res), Top.res)]
                           /\ ret' = Cudd_NotCond(Top.res, Top.comple)
                           /\ failed' = failed
                           /\ log' = log \o
                                 <<Event("insert", Top.f, Top.res, fanout, ref),
                                   Event("built", Top.f,
                                         Cudd_NotCond(ret', Top.comple), 0, ref)>>
                  ELSE /\ table' = table
                       /\ dd' = [dd EXCEPT !.ddD =
                                   Cudd_IterDerefBdd(
                                       [@ EXCEPT !.errorCode = CUDD_MEMORY_OUT], Top.res)]
                       /\ ret' = NULL
                       /\ failed' = "add"
                       /\ log' = log
           ELSE /\ table' = table
                /\ dd' = [dd EXCEPT !.ddD = cuddDeref(@, Top.res)]
                /\ ret' = Cudd_NotCond(Top.res, Top.comple)
                /\ failed' = failed
                /\ log' = Append(log, Event("built", Top.f,
                                            Cudd_NotCond(ret', Top.comple), 0, ref))
    /\ stack' = Pop
    /\ UNCHANGED <<op, f, permut, pc, res, result, tohCalls,
                   attempts, reorders, dd0, genFailed, mark>>

\* cuddHashTableQuit: every value left in the table is dereferenced.
RECURSIVE QuitValues(_, _)
QuitValues(m, map) ==
    IF DOMAIN map = {} THEN m
    ELSE LET key == CHOOSE k \in DOMAIN map : TRUE
         IN  QuitValues(Cudd_RecursiveDeref(m, map[key].value), Unbind(map, key))

\* Lines 247-250: the recursion is back; a non-NULL res is referenced and
\* the table disposed of.
Cudd_bddPermute_Out ==
    /\ op = "permute"
    /\ pc = "recur"
    /\ stack = <<>>
    /\ res' = ret
    /\ dd' = [dd EXCEPT !.ddD =
                QuitValues(IF ret # NULL THEN cuddRef(@, ret) ELSE @, table.map)]
    /\ table' = NoTable
    /\ pc' = "while"
    /\ log' = <<>>
    /\ UNCHANGED <<op, f, permut, stack, ret, result, tohCalls,
                   attempts, reorders, failed, dd0, genFailed, mark>>

\* Line 252: the loop repeats while the manager's flag is 1.
Cudd_bddPermute_While ==
    /\ op = "permute"
    /\ pc = "while"
    /\ pc' = IF Permute_Again(manager) THEN "do" ELSE "timeout"
    /\ UNCHANGED <<op, f, permut, dd, stack, ret, table, res, result, tohCalls,
                   attempts, reorders, failed, dd0, genFailed, mark, log>>

\* Lines 254-258: the reference on res is dropped, the timeout handler runs
\* if the manager reports a timeout and a handler is registered, and res is
\* returned.
Cudd_bddPermute_Return ==
    /\ op = "permute"
    /\ pc = "timeout"
    /\ dd' = [dd EXCEPT !.ddD = Permute_DropRes(@, res)]
    /\ tohCalls' =
         IF Permute_TimeoutDue(manager)
         THEN Append(tohCalls, [manager |-> "ddD", arg |-> manager.tohArg])
         ELSE tohCalls
    /\ result' = res
    /\ pc' = "done"
    /\ UNCHANGED <<op, f, permut, stack, ret, table, res,
                   attempts, reorders, failed, dd0, genFailed, mark, log>>

-----------------------------------------------------------------------------
(* The states a call starts from. *)

V(i) == EdgeFn(VarEdge(i))

\* The operands: (v0 AND v1) OR v2, v0 XOR v1, v0 XOR v1 XOR v2, the
\* multiplexer (v0 ? v1 : v2), v1, the constant, and their negations.
RootFns ==
    LET x01 == (V(0) \ V(1)) \cup (V(1) \ V(0))
        pos == { (V(0) \cap V(1)) \cup V(2),
                 x01,
                 (x01 \ V(2)) \cup (V(2) \ x01),
                 (V(0) \cap V(1)) \cup (V(2) \ V(0)),
                 V(1),
                 Assign }
    IN  pos \cup {Assign \ g : g \in pos}

\* A manager right after Cudd_Init: it holds one reference on the constant
\* and one on each projection function.
NewManager(invperm, errorCode, handler, arg) ==
    [invperm |-> invperm,
     ext |-> [n \in {ONE_NODE} \cup {VarEdge(i).node : i \in Vars} |-> 1],
     fresh |-> {},
     reordered |-> 0,
     errorCode |-> errorCode,
     timeoutHandler |-> handler,
     tohArg |-> arg]

\* The manager with k more references, the caller's, on edge e.
Referenced(m, e, k) == [m EXCEPT !.ext = AddExt(@, e.node, k)]

\* The orders a manager starts with: by index, and by index reversed.
InitOrders ==
    {[l \in 1 .. NumVars |-> l - 1], [l \in 1 .. NumVars |-> NumVars - l]}

SrcOrders == InitOrders

DstOrders == InitOrders

\* The error code a manager may hold from earlier calls.
InitErrors == {CUDD_NO_ERROR, CUDD_TIMEOUT_EXPIRED}

\* The references the caller may hold on the operand of Cudd_bddPermute.
RootRefs == {1, 2}

\* What earlier calls may have left in the source manager: nothing, or a
\* timeout (error code set, with a handler registered) after a reordering
\* (flag set).
SrcStates ==
    { [errorCode |-> CUDD_NO_ERROR, timeoutHandler |-> FALSE, reordered |-> 0],
      [errorCode |-> CUDD_TIMEOUT_EXPIRED, timeoutHandler |-> TRUE, reordered |-> 1] }

InitTransfer ==
    /\ op = "transfer"
    /\ f \in {MkEdge(g) : g \in RootFns}
    /\ permut = [i \in Vars |-> i]
    /\ \E so \in SrcOrders, do \in DstOrders, h \in BOOLEAN, ec \in InitErrors,
          ss \in SrcStates :
         dd = [ddS |-> [Referenced(NewManager(so, ss.errorCode, ss.timeoutHandler,
                                              "argS"), f, 1)
                          EXCEPT !.reordered = ss.reordered],
               ddD |-> NewManager(do, ec, h, "argD")]

\* The arrays permut: the identity, the reversal (which swaps v0 and v2 of
\* three variables), the exchange of v0 and v2, the rotation, and an array that is not a bijection.
Permuts ==
    { [i \in Vars |-> i],
      [i \in Vars |-> IF i = 0 THEN 2 ELSE IF i = 2 THEN 0 ELSE i],
      [i \in Vars |-> NumVars - 1 - i],
      [i \in Vars |-> (i + 1) % NumVars],
      [i \in Vars |-> 0] }

PermOrders == InitOrders

\* The maps of the renaming transfer: the exchange of v0 and v2, and the
\* rotation.
RenameMaps ==
    { [i \in Vars |-> IF i = 0 THEN 2 ELSE IF i = 2 THEN 0 ELSE i],
      [i \in Vars |-> (i + 1) % NumVars] }

InitRename ==
    /\ op = "rename"
    /\ f \in {MkEdge(g) : g \in RootFns}
    /\ permut \in RenameMaps
    /\ \E so \in SrcOrders, do \in DstOrders :
         dd = [ddS |-> Referenced(NewManager(so, CUDD_NO_ERROR, FALSE, "argS"), f, 1),
               ddD |-> NewManager(do, CUDD_NO_ERROR, FALSE, "argD")]

InitPermute ==
    /\ op = "permute"
    /\ f \in {MkEdge(g) : g \in RootFns}
    /\ permut \in Permuts
    /\ \E o \in PermOrders, h \in BOOLEAN, ec \in InitErrors, k \in RootRefs :
         dd = [ddS |-> NewManager(o, CUDD_NO_ERROR, FALSE, "argS"),
               ddD |-> Referenced(NewManager(o, ec, h, "argD"), f, k)]

Init ==
    /\ (InitTransfer \/ InitRename \/ InitPermute)
    /\ dd0 = dd
    /\ pc = "do"
    /\ stack = <<>>
    /\ ret = NULL
    /\ table = NoTable
    /\ res = NULL
    /\ result = NULL
    /\ tohCalls = <<>>
    /\ attempts = 0
    /\ reorders = 0
    /\ failed = "none"
    /\ genFailed = FALSE
    /\ mark = dd.ddD.ext
    /\ log = <<>>

\* The calls whose termination is checked: those that start with no error
\* code left over, a handler registered and the source in index order.  The
\* loops read none of the three.
FairInit ==
    /\ Init
    /\ dd.ddD.errorCode = CUDD_NO_ERROR
    /\ dd.ddD.timeoutHandler
    /\ dd.ddS.invperm = [l \in 1 .. NumVars |-> l - 1]

Next ==
    \/ Cudd_bddTransfer_Do
    \/ cuddBddTransferRecur_Entry
    \/ cuddBddTransferRecur_Then
    \/ cuddBddTransferRecur_Else
    \/ cuddBddTransferRecur_Var
    \/ cuddBddTransferRecur_Ite
    \/ cuddBddTransferRecur_Add
    \/ cuddBddTransfer_Out
    \/ Cudd_bddTransfer_While
    \/ Cudd_bddTransfer_Return
    \/ Cudd_bddPermute_Do
    \/ cuddBddPermuteRecur_Entry
    \/ cuddBddPermuteRecur_Then
    \/ cuddBddPermuteRecur_Else
    \/ cuddBddPermuteRecur_Ite
    \/ cuddBddPermuteRecur_Insert
    \/ Cudd_bddPermute_Out
    \/ Cudd_bddPermute_While
    \/ Cudd_bddPermute_Return

Spec == Init /\ [][Next]_vars

\* The call runs on one thread and nothing but its own return stops it: a
\* step that can be taken is taken.
FairSpec == FairInit /\ [][Next]_vars /\ WF_vars(Next)

-----------------------------------------------------------------------------
(* What the claims speak of. *)

Returned == pc = "done"

NonConstant(e) == e # NULL /\ ~cuddIsConstant(e.node)

\* The assignment at which f is read when the permuted diagram is read at a:
\* variable i has the value a gives to permut[i].
Substituted(a) == {i \in Vars : permut[i] \in a}

\* (v0 AND v1) OR v2, and (v2 AND v1) OR v0.
F012 == (V(0) \cap V(1)) \cup V(2)

F210 == (V(2) \cap V(1)) \cup V(0)

Swap02 == [i \in Vars |-> IF i = 0 THEN 2 ELSE IF i = 2 THEN 0 ELSE i]

\* The function the call has to return.
Required ==
    IF op = "transfer" THEN EdgeFn(f)
    ELSE {a \in Assign : Eval(f, Substituted(a))}

\* The nodes either manager has held in some state of interest.
NodesOf(m) == Alive(m) \cup DOMAIN m.ext

-----------------------------------------------------------------------------
(* C1: Cudd_bddTransfer, when no step of the last attempt failed, returns an
   edge (not NULL), and the edge it returns has, at every assignment, the
   value f has at that assignment: the variable indices are taken verbatim,
   whatever the polarity of f and the orders of the two managers. *)
C1_TransferPreservesFunction ==
    (op = "transfer" /\ Returned) =>
        /\ failed = "none" => result # NULL
        /\ result # NULL => \A a \in Assign : Eval(result, a) = Eval(f, a)

\* A transfer of NOT((v0 AND v1) OR v2) between managers of different orders
\* has returned.
C1_Witness ==
    /\ op = "transfer" /\ Returned /\ result # NULL
    /\ EdgeFn(f) = Assign \ F012
    /\ dd.ddS.invperm # dd.ddD.invperm
    /\ EdgeFn(result) = Assign \ F012

(* C2: Cudd_bddPermute, when no step of the last attempt failed, returns an
   edge whose value at every assignment a is the value of f at the assignment
   that gives each variable i the value a gives to permut[i]; exchanging v0
   and v2 in (v0 AND v1) OR v2 yields (v2 AND v1) OR v0. *)
C2_PermuteSubstitutes ==
    (op = "permute" /\ Returned) =>
        /\ failed = "none" => result # NULL
        /\ result # NULL =>
              \A a \in Assign : Eval(result, a) = Eval(f, Substituted(a))
        /\ (result # NULL /\ EdgeFn(f) = F012 /\ permut = Swap02) =>
              EdgeFn(result) = F210

\* The exchange of v0 and v2 in (v0 AND v1) OR v2 has returned.
C2_Witness ==
    /\ op = "permute" /\ Returned /\ result # NULL
    /\ EdgeFn(f) = F012 /\ permut = Swap02
    /\ EdgeFn(result) = F210

(* C3: no partial result.  A call returns NULL or an edge of exactly the
   required function.  Once a step has failed in an attempt, the value handed
   back is NULL in every pending frame: the frames left are all waiting for a
   recursive call, and the attempt, and a call that ends with it, yields
   NULL. *)
C3_NoPartialResult ==
    /\ Returned => (result = NULL \/ EdgeFn(result) = Required)
    /\ (failed # "none" /\ pc = "recur") =>
          /\ ret = NULL
          /\ \A i \in 1 .. Len(stack) : stack[i].pc \in {"then", "else"}
    /\ (failed # "none" /\ pc \in {"while", "timeout"}) => res = NULL
    /\ (failed # "none" /\ Returned) => result = NULL

\* A failure two frames deep has been handed back as NULL by both calls.
C3_Witness ==
    /\ Returned /\ result = NULL /\ failed \in {"oom", "add"}
    /\ attempts = 1
    /\ NonConstant(f) /\ NonConstant(cuddT(f.node, dd0.ddD.invperm))

(* C4: no leak on the failure path.  When a call returns NULL after a step
   of the recursion failed (a recursive call, the variable node, the
   if-then-else, the insertion into the cache) and that failure is the only
   one of the call (the table was created and its enumerator too), every
   node of either manager has the external references it had before the
   call, and, when no reordering pass changed the diagrams, the reference
   count it had. *)
C4_NoLeakOnFailure ==
    (Returned /\ result = NULL /\ failed \in {"oom", "timeout", "add"}
              /\ ~genFailed) =>
        /\ dd.ddS = dd0.ddS
        /\ dd.ddD.ext = dd0.ddD.ext
        /\ dd.ddD.fresh = {}
        /\ reorders = 0 =>
              \A n \in NodesOf(dd.ddD) \cup NodesOf(dd0.ddD) :
                  Ref(dd.ddD, n) = Ref(dd0.ddD, n)

\* A call on (v0 AND v1) OR v2 has returned NULL after a failure in the
\* recursion, with no reordering, and the operand's count is what it was.
C4_Witness ==
    /\ Returned /\ result = NULL /\ failed \in {"oom", "timeout", "add"}
    /\ ~genFailed /\ reorders = 0
    /\ EdgeFn(f) = F012
    /\ Ref(dd.ddD, f.node) = Ref(dd0.ddD, f.node)

(* C5: on every return of cuddBddTransfer that had a table, the table has
   been freed, every value stored in it has been dereferenced and the
   reference taken on the result has been removed: the destination holds the
   external references it held when the attempt began. *)
C5_TransferCacheDrained ==
    (op = "transfer" /\ pc = "while" /\ failed # "table") =>
        /\ table = NoTable
        /\ dd.ddD.ext = mark

(* C6, as claimed: a non-null, non-constant result is returned with one
   reference made by the call and not released by it. *)
C6_ResultOwnedByCaller ==
    (Returned /\ NonConstant(result)) =>
        ExtOf(dd.ddD, result.node) >= ExtOf([ext |-> mark], result.node) + 1

(* C6, amended: a non-null, non-constant result is returned with the
   reference the call took on it already dropped: the node has the external
   references it had when the attempt that produced it began (none, for a
   node the call made), and it is not dead, since the last release is a
   cuddDeref, which leaves the node and its descendants in place.  The
   caller has to reference the result. *)
C6_ResultReturnedUnreferenced ==
    (Returned /\ NonConstant(result)) =>
        /\ dd.ddD.ext = mark
        /\ result.node \in Alive(dd.ddD)

\* A call has returned a node it made, which nothing references.
C6_Witness ==
    /\ Returned /\ NonConstant(result)
    /\ Ref(dd.ddD, result.node) = 0
    /\ result.node \in dd.ddD.fresh

(* C7: Cudd_bddTransfer restarts from scratch after a reordering.  Every
   attempt begins with the destination's flag reset and, when a table could
   be created, with a new empty table; a step that sets the flag ends with
   NULL; the loop goes round again exactly when the flag is 1 after an
   attempt; and the call returns the result of the last attempt, with the
   flag at 0. *)
C7_RestartFromScratch ==
    [][ op = "transfer" =>
          /\ pc = "do" => (dd'.ddD.reordered = 0 /\ table'.map = <<>>)
          /\ (pc = "recur" /\ dd'.ddD.reordered = 1) => ret' = NULL
          /\ pc = "while" => pc' = (IF dd.ddD.reordered = 1 THEN "do" ELSE "timeout")
          /\ pc' = "done" => (dd'.ddD.reordered = 0 /\ result' = res') ]_vars

\* A transfer has returned the result of its second attempt.
C7_Witness ==
    /\ op = "transfer" /\ Returned
    /\ attempts = 2 /\ reorders = 1
    /\ NonConstant(result)

(* C8: when reordering passes fire only finitely often (at most MaxReorder
   times in a call), every call of Cudd_bddTransfer and of Cudd_bddPermute
   returns, after one attempt more than the passes that fired: nothing else
   limits the attempts. *)
C8_Terminates ==
    /\ <>Returned
    /\ [](Returned => attempts = reorders + 1)

\* A call has returned after as many reordering passes as may fire.
C8_Witness == Returned /\ reorders = MaxReorder /\ attempts = MaxReorder + 1

(* C9: in Cudd_bddTransfer the timeout handler is not called before the
   loop has ended; at the return it has been called exactly once, with the
   destination manager and its registered argument, if the destination's
   error code is the timeout code and a handler is registered, and not at
   all otherwise; the value returned is the last attempt's result. *)
C9_TimeoutIsNotification ==
    op = "transfer" =>
        /\ ~Returned => tohCalls = <<>>
        /\ Returned =>
              /\ tohCalls =
                    IF dd.ddD.errorCode = CUDD_TIMEOUT_EXPIRED /\ dd.ddD.timeoutHandler
                    THEN <<[manager |-> "ddD", arg |-> dd.ddD.tohArg]>>
                    ELSE <<>>
              /\ result = res

\* A transfer that took two attempts has called the handler, once, and
\* returned NULL.
C9_Witness ==
    /\ op = "transfer" /\ Returned
    /\ attempts = 2
    /\ Len(tohCalls) = 1
    /\ result = NULL

\* Whether the destination reported a timeout when the last attempt ended:
\* for an attempt that ended with no table, when it began.
TimeoutReported ==
    IF failed = "table" THEN dd0.ddD.errorCode = CUDD_TIMEOUT_EXPIRED
    ELSE dd.ddD.errorCode = CUDD_TIMEOUT_EXPIRED

(* C10, as claimed: on every return of either call, the failure to create
   the cache included, the cache of the attempt is gone and the handler has
   been called, once, exactly when the manager reported a timeout and a
   handler is registered: what Cudd_bddTransfer does. *)
C10_PermuteMirrorsTransfer ==
    Returned =>
        /\ table = NoTable
        /\ Len(tohCalls) =
              IF TimeoutReported /\ dd.ddD.timeoutHandler THEN 1 ELSE 0

(* C10, amended: on every return of Cudd_bddPermute the cache of the attempt
   is gone.  When the hash table could not be created the call returns NULL
   at once, without the test of the error code: the handler is not called,
   whatever the manager reported, and the error code is the out-of-memory
   code.  On every other return the handler has been called, once, with the
   manager and its registered argument, exactly when the error code is the
   timeout code and a handler is registered, and the value returned is the
   last attempt's. *)
C10_PermuteHarness ==
    op = "permute" =>
        /\ ~Returned => tohCalls = <<>>
        /\ Returned =>
              /\ table = NoTable
              /\ IF failed = "table"
                 THEN /\ result = NULL
                      /\ tohCalls = <<>>
                      /\ dd.ddD.errorCode = CUDD_MEMORY_OUT
                 ELSE /\ tohCalls =
                            IF dd.ddD.errorCode = CUDD_TIMEOUT_EXPIRED
                               /\ dd.ddD.timeoutHandler
                            THEN <<[manager |-> "ddD", arg |-> dd.ddD.tohArg]>>
                            ELSE <<>>
                      /\ result = res

\* A permutation in a manager that reported a timeout and has a handler has
\* returned for want of a hash table, the handler not called.
C10_Witness ==
    /\ op = "permute" /\ Returned /\ failed = "table"
    /\ dd0.ddD.errorCode = CUDD_TIMEOUT_EXPIRED
    /\ dd.ddD.timeoutHandler
    /\ tohCalls = <<>>

\* The array with permut[i] = i for every i.
IdentityPermut == [i \in Vars |-> i]

(* C11, as claimed: with an array that is not the identity, the edge
   Cudd_bddPermute returns differs from the operand. *)
C11_IdenticalOnlyForIdentity ==
    (op = "permute" /\ Returned /\ result # NULL /\ permut # IdentityPermut) =>
        result # f

(* C11, amended: the edge Cudd_bddPermute returns is the operand (same node,
   same polarity) exactly when the substitution leaves the operand's
   function as it is: always with the identity array, always for a constant
   (lines 295-296), and with another array whenever the function does not
   tell the exchanged variables apart. *)
C11_IdenticalIffInvariant ==
    (op = "permute" /\ Returned /\ result # NULL) =>
        /\ (result = f) <=> (Required = EdgeFn(f))
        /\ permut = IdentityPermut => result = f
        /\ cuddIsConstant(f.node) => result = f

\* The exchange of v0 and v2 has returned its operand, which is no constant.
C11_Witness ==
    /\ op = "permute" /\ Returned
    /\ permut = Swap02
    /\ NonConstant(f)
    /\ result = f

\* The manager as it would be with only the references it held when the
\* current attempt began.
AtMark(m) == [m EXCEPT !.ext = mark, !.fresh = {}]

(* C12: the identity array is a no-op on the diagram.  Cudd_bddPermute with
   permut[i] = i returns, unless a step fails, an edge of f's function, f
   itself; every composition of the recursion yields the node it was called
   for, from that node's own children; the manager never hands out a node
   with no reference, and, as long as no reordering pass has rebuilt the
   diagrams in the attempt, the nodes that are not dead are those the
   manager held when the attempt began (the projection functions among
   them). *)
C12_IdentityIsNoOp ==
    (op = "permute" /\ permut = IdentityPermut) =>
        /\ (Returned /\ failed = "none") => result # NULL
        /\ (Returned /\ result # NULL) =>
              (result = f /\ \A a \in Assign : Eval(result, a) = Eval(f, a))
        /\ \A i \in 1 .. Len(stack) : manager.reordered = 0 =>
              /\ stack[i].pc \in {"else", "ite", "insert"} =>
                    stack[i].t = cuddT(stack[i].f.node, manager.invperm)
              /\ stack[i].pc \in {"ite", "insert"} =>
                    stack[i].e = cuddE(stack[i].f.node, manager.invperm)
              /\ stack[i].pc = "insert" => stack[i].res = stack[i].f
        /\ manager.fresh = {}
        /\ manager.reordered = 0 => Alive(manager) = Alive(AtMark(manager))

\* The identity applied to (v0 AND v1) OR v2 has returned it, past cache
\* entries, with the nodes that existed before the call.
C12_Witness ==
    /\ op = "permute" /\ permut = IdentityPermut /\ Returned
    /\ EdgeFn(f) = F012 /\ result = f
    /\ reorders = 0
    /\ dd0.ddD.ext[f.node] = 2
    /\ Alive(manager) = Alive(dd0.ddD)

\* The entries of the log that are results handed back for a node.
Images == {i \in 1 .. Len(log) : log[i].kind \in {"hit", "built"}}

\* The attempt's recursion has returned to the wrapper with a result.
AttemptSucceeded == pc = "recur" /\ stack = <<>> /\ ret # NULL

(* C13: structural sharing is preserved.  Within an attempt of either
   call, all the results handed back for occurrences of one regular node of
   the operand, whether composed or found in the cache and whatever the
   polarity of the occurrence, are the same edge once the occurrence's
   polarity is taken off: one node of the result stands for the node of the
   operand. *)
C13_SharingPreserved ==
    \A i, j \in Images : log[i].key = log[j].key => log[i].res = log[j].res

\* A transfer has succeeded in which some node of the operand was composed
\* once and found in the cache afterwards.
C13_Witness ==
    /\ op = "transfer" /\ AttemptSucceeded
    /\ \E i, j \in Images :
          /\ i < j /\ log[i].key = log[j].key
          /\ log[i].kind = "built" /\ log[j].kind = "hit"

(* C14: the renaming form of the transfer takes, at every step, the
   variable map[sourceIndex] of the destination.  Unless a step fails it
   returns an edge whose value at every assignment a is the value of f at
   the assignment that gives each variable i the value a gives to map[i];
   for f = (v0 AND v1) OR v2 and the map v0 -> v2, v1 -> v1, v2 -> v0 the
   result at (v0=0, v1=1, v2=1) is the value of f at (v0=1, v1=1, v2=0),
   which is 1. *)
C14_RenamingTransfer ==
    (op = "rename" /\ Returned) =>
        /\ failed = "none" => result # NULL
        /\ result # NULL =>
              \A a \in Assign : Eval(result, a) = Eval(f, Substituted(a))
        /\ (result # NULL /\ EdgeFn(f) = F012 /\ permut = Swap02) =>
              /\ Eval(result, {1, 2}) = Eval(f, {0, 1})
              /\ Eval(f, {0, 1})

\* The renaming transfer of (v0 AND v1) OR v2 under the exchange of v0 and v2
\* between managers of different orders has returned.
C14_Witness ==
    /\ op = "rename" /\ Returned /\ result # NULL
    /\ EdgeFn(f) = F012 /\ permut = Swap02
    /\ dd.ddS.invperm # dd.ddD.invperm
    /\ Eval(result, {1, 2})

\* The positions of the log with an event of one kind for one key.
EventsOf(kind, key) == {i \in 1 .. Len(log) : log[i].kind = kind /\ log[i].key = key}

\* The last position of a non-empty set of positions.
Last(S) == CHOOSE i \in S : \A j \in S : j <= i

\* The log holds the events of a running permutation attempt.
PermuteAttempt == op = "permute" /\ pc = "recur" /\ log # <<>>

\* The referrers a node had when the attempt started: the reference count
\* before any reference the recursion took.
Referrers(n) == Ref(AtMark(manager), n)

(* C15 as stated: the cache policy follows the referrer count.  In an attempt
   without reordering a node is looked up, and its result inserted, only if
   it had more than one referrer, the entry's count is the referrer count
   less one, and a node with k > 1 referrers that has been visited k times
   has no entry left. *)
C15_PolicyByReferrers ==
    (PermuteAttempt /\ manager.reordered = 0) =>
        \A i \in 1 .. Len(log) :
            LET k == Referrers(log[i].key.node)
            IN  /\ log[i].kind \in {"hit", "miss", "insert"} => k > 1
                /\ log[i].kind = "insert" => log[i].count = k - 1
                /\ (k > 1 /\ Cardinality(EventsOf("hit", log[i].key)
                                         \cup EventsOf("expand", log[i].key)) = k)
                      => log[i].key.node \notin DOMAIN table.map

(* C15 as the code has it: the cache policy follows N->ref as it is when
   read.  A node is looked up exactly when its count read at line 300 is not
   1; its result is inserted exactly when its count read at line 336, after
   the recursion's own cuddRef(res) and with every reference pending frames
   hold, is not 1, with that count less one; an entry leaves the table
   exactly when it has been found as many times as its count. *)
C15_PolicyByRefCount ==
    PermuteAttempt =>
        /\ \A i \in 1 .. Len(log) :
              /\ log[i].kind \in {"hit", "miss", "insert"} => log[i].ref > 1
              /\ log[i].kind = "insert" =>
                    /\ log[i].count = log[i].ref - 1
                    /\ i < Len(log) => (log[i+1].kind = "built" /\ log[i+1].key = log[i].key)
              /\ log[i].kind = "expand" =>
                    (log[i].ref # 1 <=>
                        (i > 1 /\ log[i-1].kind = "miss" /\ log[i-1].key = log[i].key))
              /\ log[i].kind = "built" =>
                    (log[i].ref # 1 <=>
                        (i > 1 /\ log[i-1].kind = "insert" /\ log[i-1].key = log[i].key))
        /\ \A i \in 1 .. Len(log) :
              log[i].kind = "insert" /\ i = Last(EventsOf("insert", log[i].key)) =>
                 LET key == log[i].key
                     found == Cardinality({j \in EventsOf("hit", key) : j > i})
                 IN  IF key.node \in DOMAIN table.map
                     THEN table.map[key.node].count = log[i].count - found
                          /\ found < log[i].count
                     ELSE found = log[i].count
        /\ \A n \in DOMAIN table.map : EventsOf("insert", MkEdge(n)) # {}

\* Under the identity array the result of a node that had one referrer when
\* the attempt started has been inserted, with count 1: the count read at line
\* 336 includes the reference of line 329 on the result, the node itself.
C15_Witness ==
    /\ PermuteAttempt /\ manager.reordered = 0
    /\ permut = IdentityPermut
    /\ \E i \in 1 .. Len(log) :
          /\ log[i].kind = "insert"
          /\ Referrers(log[i].key.node) = 1
          /\ log[i].count = 1
          /\ log[i].key.node \in DOMAIN table.map

\* The keys of the log: the regular source nodes visited so far in the
\* attempt.
Visited == {log[i].key : i \in 1 .. Len(log)}

(* C16: the transfer is a single memoized pass.  Within one attempt of
   cuddBddTransfer each regular non-constant source node is expanded at most
   once, composed at most once and inserted at most once, whatever the number
   of paths and polarities that reach it; every entry of the table is the one
   insertion of an expanded node, so the table never holds more entries than
   there are distinct nodes visited so far. *)
C16_SingleMemoizedPass ==
    (op = "transfer" /\ pc = "recur") =>
        /\ \A i, j \in 1 .. Len(log) :
              (/\ log[i].kind \in {"expand", "insert", "built"}
               /\ log[i].kind = log[j].kind
               /\ log[i].key = log[j].key) => i = j
        /\ \A i \in 1 .. Len(log) :
              log[i].kind = "hit" =>
                 \E j \in 1 .. (i - 1) : log[j].kind = "insert" /\ log[j].key = log[i].key
        /\ \A n \in DOMAIN table.map :
              /\ EventsOf("insert", MkEdge(n)) # {}
              /\ EventsOf("expand", MkEdge(n)) # {}
        /\ Cardinality(DOMAIN table.map) <= Cardinality(Visited)

\* An attempt has reached a node a second time and found its result in the
\* table, which holds two entries; the node was expanded once.
C16_Witness ==
    /\ op = "transfer" /\ pc = "recur"
    /\ Cardinality(DOMAIN table.map) >= 2
    /\ \E i \in 1 .. Len(log) :
          /\ log[i].kind = "hit"
          /\ Cardinality(EventsOf("expand", log[i].key)) = 1

(* C17: the transfer leaves the source manager unchanged.  At every instant
   of a call of Cudd_bddTransfer, whether it succeeds, fails or is retried,
   the source manager is as it was when the call started: its nodes and
   their references (hence every reference count, which is a function of
   them), its order, its reordered flag, its error code and its timeout
   handler; the handler invoked, if any, is the destination's, with the
   destination's argument. *)
C17_SourceUnchanged ==
    op = "transfer" =>
        /\ dd.ddS = dd0.ddS
        /\ \A i \in 1 .. Len(tohCalls) :
              tohCalls[i] = [manager |-> "ddD", arg |-> dd.ddD.tohArg]

\* A transfer retried after a reordering of the destination has built nodes
\* there, invoked the destination's handler and returned, the source, whose
\* flag was set and which has a timeout and a handler of its own, being as
\* before.
C17_Witness ==
    /\ op = "transfer" /\ Returned /\ NonConstant(result)
    /\ reorders >= 1
    /\ dd.ddS.reordered = 1
    /\ dd.ddS.errorCode = CUDD_TIMEOUT_EXPIRED
    /\ dd.ddS.timeoutHandler
    /\ dd.ddD.ext # dd0.ddD.ext
    /\ Len(tohCalls) = 1

\* The edge required for operand e: the edge of e's function (transfer) or of
\* its function read through the array (permutation, renaming).
ImageOf(e) ==
    MkEdge(IF op = "transfer" THEN EdgeFn(e)
           ELSE {a \in Assign : Eval(e, Substituted(a))})

(* C18: both operations commute with negation and their cache keys carry no
   polarity.  The value handed back for an operand, at the top and at every
   level of the recursion, is the edge required for the regular operand with
   the operand's polarity applied to it, so f and NOT f yield the same node
   in opposite polarities; a constant operand yields the terminal in the
   operand's polarity (for the permutation, the operand itself) without any
   use of the cache; every key looked up or inserted is a regular edge to a
   non-constant node. *)
C18_CommutesWithNegation ==
    op \in {"transfer", "permute"} =>
        /\ \A i \in 1 .. Len(log) :
              /\ ~Cudd_IsComplement(log[i].key)
              /\ ~cuddIsConstant(log[i].key.node)
        /\ \A i \in Images : log[i].res = ImageOf(log[i].key)
        /\ \A n \in DOMAIN table.map : ~cuddIsConstant(n)
        /\ (AttemptSucceeded \/ (Returned /\ result # NULL)) =>
              LET r == IF Returned THEN result ELSE ret
              IN  /\ r = Cudd_NotCond(ImageOf(Cudd_Regular(f)), Cudd_IsComplement(f))
                  /\ cuddIsConstant(f.node) =>
                        /\ r = Cudd_NotCond(DD_ONE, Cudd_IsComplement(f))
                        /\ r = f
                        /\ log = <<>>

\* A permutation by the exchange of v0 and v2 of a complemented operand has
\* returned the complement of the edge required for the regular operand.
C18_Witness ==
    /\ op = "permute" /\ Returned /\ NonConstant(result)
    /\ permut = Swap02
    /\ Cudd_IsComplement(f)
    /\ result = Cudd_Not(ImageOf(Cudd_Regular(f)))
    /\ result # f

\* The external references of manager m with one more on the node of edge e,
\* if e is not NULL.
ExtWith(m, e) == IF e # NULL THEN cuddRef(m, e).ext ELSE m.ext

(* C19: the references of Cudd_bddPermute balance across retries.  When the
   loop test is reached the wrapper holds one reference, on the attempt's
   result if it is not NULL, and nothing else of the attempt is left; an
   attempt during which the flag was set has result NULL, so an attempt that
   is repeated has left no reference; each new attempt starts with the
   references the call started with; and at the return, after one attempt or
   several, every node has the external references it had before the call. *)
C19_PermuteBalanced ==
    op = "permute" =>
        /\ pc \in {"while", "timeout"} =>
              /\ manager.ext = ExtWith([manager EXCEPT !.ext = dd0.ddD.ext], res)
              /\ manager.reordered = 1 => res = NULL
        /\ pc = "do" => manager.ext = dd0.ddD.ext
        /\ pc = "recur" => mark = dd0.ddD.ext
        /\ Returned => manager.ext = dd0.ddD.ext

\* A permutation has returned a result built by its second attempt, the first
\* having been abandoned to a reordering after it had built nodes.
C19_Witness ==
    /\ op = "permute" /\ Returned /\ NonConstant(result)
    /\ attempts = 2 /\ reorders = 1
    /\ result # f
    /\ dd.ddD.fresh # {}

\* The references the pending frames of the transfer hold on node n: on t
\* from line 185 on, on e from line 192 on, both until line 208-209, and on
\* res from line 207 until it enters the table.
HeldByFrames(n) ==
    Cardinality({i \in 1 .. Len(stack) :
                    stack[i].pc \in {"else", "var", "ite"} /\ stack[i].t.node = n})
    + Cardinality({i \in 1 .. Len(stack) :
                    stack[i].pc \in {"var", "ite"} /\ stack[i].e.node = n})
    + Cardinality({i \in 1 .. Len(stack) :
                    stack[i].pc = "add" /\ stack[i].res.node = n})

\* The references the entries of the transfer's table own on node n.
HeldByTable(n) == Cardinality({k \in DOMAIN table.map : table.map[k].node = n})

\* A recursive call of the transfer has just returned ret to its caller,
\* which has not yet acted on it.
JustReturned ==
    /\ pc = "recur"
    /\ stack = <<>> \/ Top.pc \in {"then", "else"}
    /\ log # <<>>
    /\ log[Len(log)].kind \in {"hit", "built"}

(* C20: the values cached by the transfer are never dead.  While the table
   of an attempt of cuddBddTransfer exists, every value stored in it is a
   non-constant node of the destination with at least one reference more
   than it had when the attempt started, the one its entry owns; the
   references of every node are those it had at the start plus one per entry
   storing it plus the ones pending frames hold on their own t, e and res,
   and nothing else; and a non-constant node a recursive call has just
   returned, built or found, is the value of an entry, so it is referenced
   and alive when the caller references it. *)
C20_CachedResultsAlive ==
    (op = "transfer" /\ pc = "recur") =>
        /\ \A k \in DOMAIN table.map :
              LET n == table.map[k].node
              IN  /\ ~cuddIsConstant(n)
                  /\ ExtOf(dd.ddD, n) >= ExtOf([ext |-> mark], n) + 1
                  /\ n \notin dd.ddD.fresh
        /\ \A n \in DOMAIN dd.ddD.ext \cup DOMAIN mark :
              ExtOf(dd.ddD, n) =
                  ExtOf([ext |-> mark], n) + HeldByTable(n) + HeldByFrames(n)
        /\ (JustReturned /\ NonConstant(ret)) =>
              /\ HeldByTable(ret.node) = 1
              /\ ExtOf(dd.ddD, ret.node) >= 1
              /\ ret.node \in Alive(dd.ddD)

\* A recursive call has returned a node found in the table to a caller that
\* holds a reference on its then result; the table has two entries.
C20_Witness ==
    /\ op = "transfer" /\ JustReturned /\ NonConstant(ret)
    /\ log[Len(log)].kind = "hit"
    /\ stack # <<>> /\ Top.pc = "else"
    /\ HeldByFrames(Top.t.node) >= 1
    /\ Cardinality(DOMAIN table.map) >= 2

=============================================================================
